---- MODULE Spec2Model ----
(***************************************************************************)
(* Model of the offline todo / note services (services/todoService.ts,     *)
(* services/noteService.ts) and of the screens that drive them.            *)
(*                                                                         *)
(* A JavaScript object is modelled as [val, undef]: val is the partial     *)
(* record of the keys that hold a defined value, undef the set of keys     *)
(* that are present with the value undefined.  JSON.stringify keeps only   *)
(* val; JSON.parse gives objects with no undefined keys.                   *)
(* A nullable value is a sequence of length 0 (null) or 1.                 *)
(***************************************************************************)
EXTENDS Integers, Sequences, FiniteSets, TLC

VARIABLES storage, now, call, last, started, faulted, idClock, scenario,
          todos, loading, refreshing, showForm, editingTodo, overlapped, raced,
          notes, editingNote, colorScheme, mode, systemColorScheme

vars == <<storage, now, call, last, started, faulted, idClock, scenario,
          todos, loading, refreshing, showForm, editingTodo, overlapped, raced,
          notes, editingNote, colorScheme, mode, systemColorScheme>>

\* the theme store and what useColorScheme() gives
themeVars == <<colorScheme, mode, systemColorScheme>>

\* the list and the edited record of TodoScreen and of NotesScreen
todoVars == <<todos, editingTodo>>

noteVars == <<notes, editingNote>>

\* the state of the mounted screen: loading, refreshing and showForm are the
\* state of those names of TodoScreen or of NotesScreen, whichever the
\* scenario mounts
screenVars == <<todos, loading, refreshing, showForm, editingTodo, notes, editingNote>>

\* ---------------------------------------------------------------- bounds
MaxClock == 3
MaxCalls == 2

\* two callers: at most two service calls are in progress at a time
Slots == {1, 2}

\* ------------------------------------------------------------- constants
TODOS_KEY == "@todos"
NOTES_KEY == "@notes"
Keys == {TODOS_KEY, NOTES_KEY}

Null == <<>>
Some(v) == <<v>>

\* ------------------------------------------------------------ JS helpers
EmptyRec == [k \in {} |-> ""]
Obj(v, u) == [val |-> v, undef |-> u]
NoData == Obj(EmptyRec, {})

Has(o, k) == k \in DOMAIN o.val

\* !o.k for a boolean field: true when o has no value for k
Not(o, k) == ~(Has(o, k) /\ o.val[k])

\* an id of a coarser clock: Math.floor(Date.now() / 2).toString()
DateNowHalvedToString(t) == ToString(t \div 2)

\* Date.now().toString()
DateNowToString(t) == ToString(t)

\* new Date().toISOString()
toISOString(t) == "T" \o ToString(t)

\* new Date(s).getTime()
getTime(s) == CHOOSE t \in 0..MaxClock : toISOString(t) = s

\* {...a, ...b}
Spread(a, b) ==
  Obj([k \in ((DOMAIN a.val) \ b.undef) \cup DOMAIN b.val |->
         IF k \in DOMAIN b.val THEN b.val[k] ELSE a.val[k]],
      (a.undef \ DOMAIN b.val) \cup b.undef)

JSONstringify(list) == [i \in DOMAIN list |-> list[i].val]

JSONparse(text) == [i \in DOMAIN text |-> Obj(text[i], {})]

\* String.prototype.toLowerCase, on ASCII letters
LowerChar(ch) ==
  LET upper == "ABCDEFGHIJKLMNOPQRSTUVWXYZ"
      lower == "abcdefghijklmnopqrstuvwxyz"
  IN  IF \E i \in 1..26 : SubSeq(upper, i, i) = ch
        THEN SubSeq(lower, CHOOSE i \in 1..26 : SubSeq(upper, i, i) = ch,
                           CHOOSE i \in 1..26 : SubSeq(upper, i, i) = ch)
        ELSE ch

RECURSIVE toLowerCase(_)
toLowerCase(str) ==
  IF Len(str) = 0 THEN ""
  ELSE LowerChar(SubSeq(str, 1, 1)) \o toLowerCase(SubSeq(str, 2, Len(str)))

\* String.prototype.includes
includes(str, q) ==
  \/ Len(q) = 0
  \/ \E i \in 1..(Len(str) - Len(q) + 1) : SubSeq(str, i, i + Len(q) - 1) = q

\* String.prototype.trim, on spaces
RECURSIVE trim(_)
trim(str) ==
  IF Len(str) = 0 THEN ""
  ELSE IF SubSeq(str, 1, 1) = " " THEN trim(SubSeq(str, 2, Len(str)))
  ELSE IF SubSeq(str, Len(str), Len(str)) = " " THEN trim(SubSeq(str, 1, Len(str) - 1))
  ELSE str

\* array.unshift(x), what push is not
unshift(list, x) == <<x>> \o list

\* array.push(x)
push(list, x) == Append(list, x)

\* array.findLastIndex(x => x.id === id), 0 standing for -1
findLastIndex(list, id) ==
  IF \E i \in DOMAIN list : list[i].val.id = id
    THEN CHOOSE i \in DOMAIN list :
           /\ list[i].val.id = id
           /\ \A j \in (i + 1)..Len(list) : list[j].val.id # id
    ELSE 0

\* array.findIndex(x => x.id === id), 0 standing for -1
findIndex(list, id) ==
  IF \E i \in DOMAIN list : list[i].val.id = id
    THEN CHOOSE i \in DOMAIN list :
           /\ list[i].val.id = id
           /\ \A j \in 1..(i - 1) : list[j].val.id # id
    ELSE 0

\* array.find(x => x.id === id) || null
find(list, id) ==
  IF findIndex(list, id) = 0 THEN Null ELSE Some(list[findIndex(list, id)])

\* a filter that drops only the first element with the id
RECURSIVE filterFirstWithId(_, _)
filterFirstWithId(list, id) ==
  IF list = <<>> THEN <<>>
  ELSE IF Head(list).val.id # id
    THEN <<Head(list)>> \o filterFirstWithId(Tail(list), id)
    ELSE Tail(list)

\* array.filter(x => x.id !== id)
RECURSIVE filterNotId(_, _)
filterNotId(list, id) ==
  IF list = <<>> THEN <<>>
  ELSE IF Head(list).val.id # id
    THEN <<Head(list)>> \o filterNotId(Tail(list), id)
    ELSE filterNotId(Tail(list), id)

\* ------------------------------------------------------------ inputs
\* ids a caller passes: of a record created at instant 1, and at instant 2
IdArgs == {DateNowToString(1), DateNowToString(2)}

CreateTodoDtos ==
  { Obj([title |-> "a"], {}),
    Obj([title |-> "b", description |-> "d", priority |-> "high"], {"dueDate"}) }

\* UpdateTodoDto is Partial<CreateTodoDto> & {completed?}: a key may be
\* absent, or present with the value undefined
UpdateTodoDtos ==
  { Obj([completed |-> TRUE], {}),
    Obj([title |-> "c", priority |-> "low"], {"description", "dueDate"}),
    Obj(EmptyRec, {"priority", "completed"}) }

CreateNoteDtos ==
  { Obj([title |-> "a", content |-> "x", isPinned |-> FALSE], {"category", "tags"}),
    Obj([title |-> "b", content |-> "Y", category |-> "w", tags |-> <<"t">>,
         isPinned |-> TRUE], {}) }

UpdateNoteDtos ==
  { Obj([isPinned |-> TRUE], {}),
    Obj([title |-> "c", content |-> "x", isPinned |-> FALSE], {"category", "tags"}) }

\* ------------------------------------------------------------ calls
\* The state of one asynchronous service call.  list is the call's local
\* array (todos / notes).  readOk, alone, stale, base, before and wrote
\* record what happened to the call and are read by no operation: base is
\* the stored value before the first write the call missed, before the
\* stored value when the call took its last step, wrote the value it stored.
\* handler is the TodoScreen function awaiting the call ("" when the
\* service was called directly); saveOk (did its setItem succeed) and shown
\* (the screen's todos when the call settled, before the handler went on)
\* are records of the same kind, and so is missed: the writes of the
\* service's other calls since the call's first read, each as the writer's
\* method, id and number of writes it had missed itself.
IdleCall ==
  [svc |-> "", op |-> "", via |-> "", id |-> "", data |-> NoData,
   pc |-> "idle", list |-> <<>>, result |-> Null, error |-> "",
   readOk |-> TRUE, alone |-> TRUE, stale |-> FALSE, base |-> Null,
   before |-> Null, wrote |-> Null,
   handler |-> "", saveOk |-> TRUE, shown |-> <<>>, missed |-> <<>>,
   locals |-> <<>>]

KeyOf(svc) == IF svc = "todo" THEN TODOS_KEY ELSE NOTES_KEY

InFlight(r) == r.pc \in {"getItem", "resume"}

\* the call has read the collection at least once
FirstReadDone(r) == r.pc = "resume" \/ (r.pc = "getItem" /\ r.op # r.via)

\* a write of call c is seen by the calls in flight: none of them runs
\* alone any more, and one that has read misses what c writes
Seen(cs, c, didWrite) ==
  [d \in Slots |->
     IF d # c /\ InFlight(cs[d])
       THEN LET missing == didWrite /\ cs[d].svc = cs[c].svc /\ cs[d].pc = "resume"
            IN  [cs[d] EXCEPT
                   !.alone = @ /\ ~didWrite,
                   !.stale = @ \/ missing,
                   !.base = IF missing /\ ~cs[d].stale
                              THEN storage[KeyOf(cs[c].svc)] ELSE @,
                   !.missed =
                      IF didWrite /\ cs[d].svc = cs[c].svc /\ FirstReadDone(cs[d])
                        THEN Append(@, <<cs[c].via, cs[c].id, Len(cs[c].missed)>>)
                        ELSE @]
       ELSE cs[d]]

\* a storage access succeeds or throws; a behaviour has at most one failure
Outcomes == IF faulted THEN {TRUE} ELSE BOOLEAN

\* the collection under a stored value
Coll(v) == IF v = Null THEN <<>> ELSE v[1]

\* AsyncStorage.getItem followed by data ? JSON.parse(data) : [], and the
\* catch branch: the value the service's read gives
ReadItem(key, ok) ==
  IF ok /\ storage[key] # Null THEN JSONparse(storage[key][1]) ELSE <<>>

\* the callers are interchangeable: the calls in progress are kept in the
\* lowest slots
Compact(cs) ==
  IF cs[1].pc = "idle" /\ cs[2].pc # "idle"
    THEN [cs EXCEPT ![1] = cs[2], ![2] = cs[1]]
    ELSE cs

\* ------------------------------------------------------------ TodoScreen
\* What each handler of the screen does after its await, given the settled
\* service call r.  A rejected call takes the catch branch, which logs.
\* prev.map(todo => todo.id === updated.id ? updated : todo)
mapReplace(prev, updated) ==
  [i \in DOMAIN prev |->
     IF prev[i].val.id = updated.val.id THEN updated ELSE prev[i]]

\* loadTodos that drops the data it read
loadTodosFlagsOnly(r) ==
  /\ todos' = todos
  /\ loading' = FALSE
  /\ refreshing' = FALSE
  /\ UNCHANGED <<showForm, editingTodo>>

loadTodos(r) ==
  /\ todos' = IF r.error = "" THEN r.list ELSE todos
  /\ loading' = FALSE
  /\ refreshing' = FALSE
  /\ UNCHANGED <<showForm, editingTodo>>

\* handleCreateTodo that puts the new todo first: [newTodo, ...prev]
handleCreateTodoPrepends(r) ==
  /\ todos' = IF r.error = "" THEN unshift(todos, r.result[1]) ELSE todos
  /\ UNCHANGED <<loading, refreshing, showForm, editingTodo>>

handleCreateTodo(r) ==
  /\ todos' = IF r.error = "" THEN push(todos, r.result[1]) ELSE todos
  /\ UNCHANGED <<loading, refreshing, showForm, editingTodo>>

handleUpdateTodo(r) ==
  /\ todos' = IF r.error = "" /\ r.result # Null
                THEN mapReplace(todos, r.result[1]) ELSE todos
  /\ editingTodo' = IF r.error = "" THEN Null ELSE editingTodo
  /\ UNCHANGED <<loading, refreshing, showForm>>

handleToggleTodo(r) ==
  /\ todos' = IF r.error = "" /\ r.result # Null
                THEN mapReplace(todos, r.result[1]) ELSE todos
  /\ UNCHANGED <<loading, refreshing, showForm, editingTodo>>

\* handleDeleteTodo with setTodos in a finally
handleDeleteTodoFinally(r) ==
  /\ todos' = filterNotId(todos, r.id)
  /\ UNCHANGED <<loading, refreshing, showForm, editingTodo>>

handleDeleteTodo(r) ==
  /\ todos' = IF r.error = "" THEN filterNotId(todos, r.id) ELSE todos
  /\ UNCHANGED <<loading, refreshing, showForm, editingTodo>>

\* TodoFilter, and the texts of the search box: empty, blank, a title in
\* upper case, a title followed by a blank, a description, no match
TodoFilters == {"all", "active", "completed"}

SearchTexts == {"", " ", "A", "a ", "d", "z"}

\* the status filter of filteredTodos
filterStatus(list, filter) ==
  IF filter = "active" THEN SelectSeq(list, LAMBDA t : Not(t, "completed"))
  ELSE IF filter = "completed" THEN SelectSeq(list, LAMBDA t : ~Not(t, "completed"))
  ELSE list

\* the search filter of filteredTodos, on the query in lower case
filterSearch(list, query) ==
  SelectSeq(list, LAMBDA t :
    \/ includes(toLowerCase(t.val.title), query)
    \/ Has(t, "description") /\ includes(toLowerCase(t.val.description), query))

\* filteredTodos that searches whenever the text is not empty: if (searchQuery)
filteredTodosUntrimmed(filter, searchQuery) ==
  IF searchQuery # ""
    THEN filterSearch(filterStatus(todos, filter), toLowerCase(searchQuery))
    ELSE filterStatus(todos, filter)

\* the list TodoScreen displays (useMemo on todos, filter, searchQuery);
\* filter and searchQuery are set by setFilter and setSearchQuery to any
\* value at any time and touch nothing else, so they are parameters here
filteredTodos(filter, searchQuery) ==
  IF trim(searchQuery) # ""
    THEN filterSearch(filterStatus(todos, filter), toLowerCase(searchQuery))
    ELSE filterStatus(todos, filter)

\* the header's stats, from the screen's todos
stats ==
  [total |-> Len(todos),
   active |-> Len(SelectSeq(todos, LAMBDA t : Not(t, "completed"))),
   completed |-> Len(SelectSeq(todos, LAMBDA t : ~Not(t, "completed")))]

\* ------------------------------------------------------------ NotesScreen
\* What each handler of NotesScreen does after its await.
\* loadNotes without setRefreshing(false)
loadNotesStillRefreshing(r) ==
  /\ notes' = IF r.error = "" THEN r.list ELSE notes
  /\ loading' = FALSE
  /\ UNCHANGED <<refreshing, showForm, editingNote>>

loadNotes(r) ==
  /\ notes' = IF r.error = "" THEN r.list ELSE notes
  /\ loading' = FALSE
  /\ refreshing' = FALSE
  /\ UNCHANGED <<showForm, editingNote>>

\* setNotes(prev => [newNote, ...prev])
handleCreateNote(r) ==
  /\ notes' = IF r.error = "" THEN unshift(notes, r.result[1]) ELSE notes
  /\ UNCHANGED <<loading, refreshing, showForm, editingNote>>

\* the loadNotes() it then calls is LoadNotesAfter
handleUpdateNote(r) ==
  /\ notes' = IF r.error = "" /\ r.result # Null
                THEN mapReplace(notes, r.result[1]) ELSE notes
  /\ editingNote' = IF r.error = "" THEN Null ELSE editingNote
  /\ UNCHANGED <<loading, refreshing, showForm>>

\* nothing but the loadNotes() of LoadNotesAfter
handleTogglePin(r) ==
  UNCHANGED <<notes, loading, refreshing, showForm, editingNote>>

handleDeleteNote(r) ==
  /\ notes' = IF r.error = "" THEN filterNotId(notes, r.id) ELSE notes
  /\ UNCHANGED <<loading, refreshing, showForm, editingNote>>

\* the getNotes call of a loadNotes(), before its read
LoadNotes ==
  [IdleCall EXCEPT !.svc = "note", !.op = "getNotes", !.via = "getNotes",
                   !.handler = "loadNotes", !.pc = "getItem"]

\* if (updated) loadNotes(): the call that handleUpdateNote and
\* handleTogglePin start when their call gave a note
LoadNotesAfter(r) ==
  IF /\ r.handler \in {"handleUpdateNote", "handleTogglePin"}
     /\ r.error = ""
     /\ r.result # Null
    THEN LoadNotes ELSE IdleCall

\* the awaiting handler goes on in the turn in which the call settles
Resume(r) ==
  CASE r.handler = "loadTodos" -> loadTodos(r) /\ UNCHANGED noteVars
    [] r.handler = "handleCreateTodo" -> handleCreateTodo(r) /\ UNCHANGED noteVars
    [] r.handler = "handleUpdateTodo" -> handleUpdateTodo(r) /\ UNCHANGED noteVars
    [] r.handler = "handleToggleTodo" -> handleToggleTodo(r) /\ UNCHANGED noteVars
    [] r.handler = "handleDeleteTodo" -> handleDeleteTodo(r) /\ UNCHANGED noteVars
    [] r.handler = "loadNotes" -> loadNotes(r) /\ UNCHANGED todoVars
    [] r.handler = "handleCreateNote" -> handleCreateNote(r) /\ UNCHANGED todoVars
    [] r.handler = "handleUpdateNote" -> handleUpdateNote(r) /\ UNCHANGED todoVars
    [] r.handler = "handleTogglePin" -> handleTogglePin(r) /\ UNCHANGED todoVars
    [] r.handler = "handleDeleteNote" -> handleDeleteNote(r) /\ UNCHANGED todoVars
    [] OTHER -> UNCHANGED screenVars

\* the call settles: its record becomes the last settled call
Settle(cs, c, r) ==
  /\ last' = [r EXCEPT !.pc = "done", !.shown = todos]
  /\ call' = Compact([cs EXCEPT ![c] = LoadNotesAfter(r)])
  /\ Resume(r)

\* the records of coll whose id no record of list has
RECURSIVE NotIn(_, _)
NotIn(coll, list) ==
  IF coll = <<>> THEN <<>>
  ELSE IF \E i \in DOMAIN list : list[i].id = Head(coll).id
    THEN NotIn(Tail(coll), list)
    ELSE <<Head(coll)>> \o NotIn(Tail(coll), list)

\* setItem that keeps the stored records the written list does not have
setItemMerging(c, key, list, res, errmsg) ==
  \E ok \in Outcomes :
    LET text == JSONstringify(list) \o NotIn(Coll(storage[key]), JSONstringify(list))
    IN  /\ faulted' = (faulted \/ ~ok)
        /\ storage' = IF ok THEN [storage EXCEPT ![key] = Some(text)] ELSE storage
        /\ Settle(Seen(call, c, ok), c,
                  [call[c] EXCEPT
                     !.list = <<>>,
                     !.result = IF ok THEN res ELSE Null,
                     !.error = IF ok THEN "" ELSE errmsg,
                     !.before = storage[key],
                     !.saveOk = ok,
                     !.wrote = IF ok THEN Some(text) ELSE Null])

\* AsyncStorage.setItem(key, JSON.stringify(list)) inside try/catch: on
\* success the call resolves with res, on failure it rejects with errmsg
setItem(c, key, list, res, errmsg) ==
  \E ok \in Outcomes :
    /\ faulted' = (faulted \/ ~ok)
    /\ storage' = IF ok THEN [storage EXCEPT ![key] = Some(JSONstringify(list))]
                        ELSE storage
    /\ Settle(Seen(call, c, ok), c,
              [call[c] EXCEPT
                 !.list = <<>>,
                 !.result = IF ok THEN res ELSE Null,
                 !.error = IF ok THEN "" ELSE errmsg,
                 !.before = storage[key],
                 !.saveOk = ok,
                 !.wrote = IF ok THEN Some(JSONstringify(list)) ELSE Null])

\* a call that ends without touching storage again
Finish(c, res, errmsg) ==
  /\ Settle(call, c, [call[c] EXCEPT !.list = <<>>, !.result = res, !.error = errmsg,
                                     !.before = storage[KeyOf(call[c].svc)]])
  /\ UNCHANGED <<storage, faulted>>

At(c, svc, op) ==
  /\ call[c].pc = "resume"
  /\ call[c].svc = svc
  /\ call[c].op = op

\* idClock records, for each collection, the largest clock value a create
\* has taken its id from, and whether every create so far took a strictly
\* larger value than every create before it; no operation reads it
Observe(key, tId) ==
  [idClock EXCEPT ![key] =
     [max |-> IF tId > @.max THEN tId ELSE @.max,
      increasing |-> @.increasing /\ tId > @.max]]

\* new Date() / Date.now(): the values a clock read can give when the read
\* before it gave from (the clock does not go back)
ClockRead(from) == {t \in {from, from + 1} : t <= MaxClock}

\* createdAt: new Date().toISOString() where updatedAt is meant
createdAtAgain(t) == Obj([createdAt |-> toISOString(t)], {})

updatedAt(t) == Obj([updatedAt |-> toISOString(t)], {})

\* ------------------------------------------------------------ TodoService
saveTodos(c, list, res) == setItem(c, TODOS_KEY, list, res, "Failed to save todos")

\* getTodos whose read cannot fail
getTodosUnfailing(ok) == ReadItem(TODOS_KEY, TRUE)

getTodos(ok) == ReadItem(TODOS_KEY, ok)

\* getTodosStats that counts every high-priority todo
getTodosStatsAllHigh(list) ==
  [total |-> Len(list),
   completed |-> Len(SelectSeq(list, LAMBDA t : ~Not(t, "completed"))),
   active |-> Len(SelectSeq(list, LAMBDA t : Not(t, "completed"))),
   highPriority |-> Len(SelectSeq(list, LAMBDA t :
                      Has(t, "priority") /\ t.val.priority = "high"))]

\* the counts of getTodosStats on the todos getTodos returned:
\* array.filter(pred).length is Len(SelectSeq(array, pred))
getTodosStats(list) ==
  [total |-> Len(list),
   completed |-> Len(SelectSeq(list, LAMBDA t : ~Not(t, "completed"))),
   active |-> Len(SelectSeq(list, LAMBDA t : Not(t, "completed"))),
   highPriority |-> Len(SelectSeq(list, LAMBDA t :
                      /\ Has(t, "priority") /\ t.val.priority = "high"
                      /\ Not(t, "completed")))]

getTodoById(c) ==
  /\ At(c, "todo", "getTodoById")
  /\ Finish(c, find(call[c].list, call[c].id), "")
  /\ UNCHANGED <<now, started, idClock, scenario, overlapped, raced, themeVars>>

newTodo(data, tId, tCreated, tUpdated) ==
  Obj([id |-> DateNowToString(tId),
       title |-> data.val.title,
       completed |-> FALSE,
       priority |-> IF Has(data, "priority") THEN data.val.priority ELSE "medium",
       createdAt |-> toISOString(tCreated),
       updatedAt |-> toISOString(tUpdated)]
        @@ [k \in {"description", "dueDate"} \cap DOMAIN data.val |-> data.val[k]],
      {"description", "dueDate"} \ DOMAIN data.val)

\* createTodo after its read: three clock reads, push, save
createTodo(c) ==
  /\ At(c, "todo", "createTodo")
  /\ \E tId \in ClockRead(now) : \E tCreated \in ClockRead(tId) :
       \E tUpdated \in ClockRead(tCreated) :
         /\ now' = tUpdated
         /\ idClock' = Observe(TODOS_KEY, tId)
         /\ LET todo == newTodo(call[c].data, tId, tCreated, tUpdated)
            IN  saveTodos(c, push(call[c].list, todo), Some(todo))
  /\ UNCHANGED <<started, scenario, overlapped, raced, themeVars>>

\* updateTodo that, inside a toggle, negates the flag it has just read
updateTodoFlipping(c) ==
  /\ At(c, "todo", "updateTodo")
  /\ LET list == call[c].list
         index == findIndex(list, call[c].id)
         data == IF call[c].via = "toggleTodo" /\ index # 0
                   THEN Obj([completed |-> Not(list[index], "completed")], {})
                   ELSE call[c].data
     IN  IF index = 0
           THEN Finish(c, Null, "Todo not found") /\ now' = now
           ELSE \E t \in ClockRead(now) :
                  /\ now' = t
                  /\ LET updatedTodo ==
                           Spread(Spread(list[index], data), updatedAt(t))
                     IN  saveTodos(c, [list EXCEPT ![index] = updatedTodo],
                                   Some(updatedTodo))
  /\ UNCHANGED <<started, idClock, scenario, overlapped, raced, themeVars>>

\* updateTodo that returns null for an id no todo has
updateTodoOrNull(c) ==
  /\ At(c, "todo", "updateTodo")
  /\ LET list == call[c].list
         index == findIndex(list, call[c].id)
     IN  IF index = 0
           THEN Finish(c, Null, "") /\ now' = now
           ELSE \E t \in ClockRead(now) :
                  /\ now' = t
                  /\ LET updatedTodo ==
                           Spread(Spread(list[index], call[c].data), updatedAt(t))
                     IN  saveTodos(c, [list EXCEPT ![index] = updatedTodo],
                                   Some(updatedTodo))
  /\ UNCHANGED <<started, idClock, scenario, overlapped, raced, themeVars>>

updateTodo(c) ==
  /\ At(c, "todo", "updateTodo")
  /\ LET list == call[c].list
         index == findIndex(list, call[c].id)
     IN  IF index = 0
           THEN Finish(c, Null, "Todo not found") /\ now' = now
           ELSE \E t \in ClockRead(now) :
                  /\ now' = t
                  /\ LET updatedTodo ==
                           Spread(Spread(list[index], call[c].data), updatedAt(t))
                     IN  saveTodos(c, [list EXCEPT ![index] = updatedTodo],
                                   Some(updatedTodo))
  /\ UNCHANGED <<started, idClock, scenario, overlapped, raced, themeVars>>

deleteTodo(c) ==
  /\ At(c, "todo", "deleteTodo")
  /\ saveTodos(c, filterNotId(call[c].list, call[c].id), Null)
  /\ UNCHANGED <<now, started, idClock, scenario, overlapped, raced, themeVars>>

\* toggleTodo that passes completed: true instead of the negation
toggleTodoCompletes(c) ==
  /\ At(c, "todo", "toggleTodo")
  /\ LET todo == find(call[c].list, call[c].id)
     IN  IF todo = Null
           THEN Finish(c, Null, "")
           ELSE /\ call' = [call EXCEPT
                              ![c].op = "updateTodo",
                              ![c].data = Obj([completed |-> TRUE], {}),
                              ![c].pc = "getItem"]
                /\ UNCHANGED <<storage, faulted, last>>
                /\ UNCHANGED screenVars
  /\ UNCHANGED <<now, started, idClock, scenario, overlapped, raced, themeVars>>

\* toggleTodo after getTodoById: null, or the call goes on as updateTodo
toggleTodo(c) ==
  /\ At(c, "todo", "toggleTodo")
  /\ LET todo == find(call[c].list, call[c].id)
     IN  IF todo = Null
           THEN Finish(c, Null, "")
           ELSE /\ call' = [call EXCEPT
                              ![c].op = "updateTodo",
                              ![c].data = Obj([completed |-> Not(todo[1], "completed")], {}),
                              ![c].pc = "getItem"]
                /\ UNCHANGED <<storage, faulted, last>>
                /\ UNCHANGED screenVars
  /\ UNCHANGED <<now, started, idClock, scenario, overlapped, raced, themeVars>>

\* ------------------------------------------------------------ NoteService
saveNotes(c, list, res) == setItem(c, NOTES_KEY, list, res, "Failed to save notes")

\* the comparator with the dates the other way round (oldest first)
compareNotesOldestFirst(a, b) ==
  IF a.val.isPinned # b.val.isPinned
    THEN (IF a.val.isPinned THEN -1 ELSE 1)
    ELSE getTime(a.val.updatedAt) - getTime(b.val.updatedAt)

\* the comparator without its pinned-first branch
compareNotesByDate(a, b) ==
  getTime(b.val.updatedAt) - getTime(a.val.updatedAt)

\* the comparator of getNotes
compareNotes(a, b) ==
  IF a.val.isPinned # b.val.isPinned
    THEN (IF a.val.isPinned THEN -1 ELSE 1)
    ELSE getTime(b.val.updatedAt) - getTime(a.val.updatedAt)

RECURSIVE insertNote(_, _)
insertNote(sorted, x) ==
  IF sorted = <<>> THEN <<x>>
  ELSE IF compareNotes(x, Head(sorted)) < 0
    THEN <<x>> \o sorted
    ELSE <<Head(sorted)>> \o insertNote(Tail(sorted), x)

\* Array.prototype.sort with compareNotes (a stable sort)
RECURSIVE sortNotes(_)
sortNotes(list) ==
  IF list = <<>> THEN <<>>
  ELSE insertNote(sortNotes(SubSeq(list, 1, Len(list) - 1)), list[Len(list)])

getNotes(ok) == sortNotes(ReadItem(NOTES_KEY, ok))

\* the filter of searchNotes on the notes getNotes returned
searchNotes(list, query) ==
  LET lowerQuery == toLowerCase(query)
  IN  SelectSeq(list, LAMBDA note :
        \/ includes(toLowerCase(note.val.title), lowerQuery)
        \/ includes(toLowerCase(note.val.content), lowerQuery)
        \/ /\ Has(note, "tags")
           /\ \E i \in DOMAIN note.val.tags :
                 includes(toLowerCase(note.val.tags[i]), lowerQuery))

getNoteById(c) ==
  /\ At(c, "note", "getNoteById")
  /\ Finish(c, find(call[c].list, call[c].id), "")
  /\ UNCHANGED <<now, started, idClock, scenario, overlapped, raced, themeVars>>

newNote(data, tId, tCreated, tUpdated) ==
  Obj([id |-> DateNowToString(tId),
       title |-> data.val.title,
       content |-> data.val.content,
       tags |-> IF Has(data, "tags") THEN data.val.tags ELSE <<>>,
       isPinned |-> Has(data, "isPinned") /\ data.val.isPinned,
       createdAt |-> toISOString(tCreated),
       updatedAt |-> toISOString(tUpdated)]
        @@ [k \in {"category"} \cap DOMAIN data.val |-> data.val[k]],
      {"category"} \ DOMAIN data.val)

createNote(c) ==
  /\ At(c, "note", "createNote")
  /\ \E tId \in ClockRead(now) : \E tCreated \in ClockRead(tId) :
       \E tUpdated \in ClockRead(tCreated) :
         /\ now' = tUpdated
         /\ idClock' = Observe(NOTES_KEY, tId)
         /\ LET note == newNote(call[c].data, tId, tCreated, tUpdated)
            IN  saveNotes(c, push(call[c].list, note), Some(note))
  /\ UNCHANGED <<started, scenario, overlapped, raced, themeVars>>

updateNote(c) ==
  /\ At(c, "note", "updateNote")
  /\ LET list == call[c].list
         index == findIndex(list, call[c].id)
     IN  IF index = 0
           THEN Finish(c, Null, "Note not found") /\ now' = now
           ELSE \E t \in ClockRead(now) :
                  /\ now' = t
                  /\ LET updatedNote ==
                           Spread(Spread(list[index], call[c].data), updatedAt(t))
                     IN  saveNotes(c, [list EXCEPT ![index] = updatedNote],
                                   Some(updatedNote))
  /\ UNCHANGED <<started, idClock, scenario, overlapped, raced, themeVars>>

deleteNote(c) ==
  /\ At(c, "note", "deleteNote")
  /\ saveNotes(c, filterNotId(call[c].list, call[c].id), Null)
  /\ UNCHANGED <<now, started, idClock, scenario, overlapped, raced, themeVars>>

togglePinNote(c) ==
  /\ At(c, "note", "togglePinNote")
  /\ LET note == find(call[c].list, call[c].id)
     IN  IF note = Null
           THEN Finish(c, Null, "")
           ELSE /\ call' = [call EXCEPT
                              ![c].op = "updateNote",
                              ![c].data = Obj([isPinned |-> Not(note[1], "isPinned")], {}),
                              ![c].pc = "getItem"]
                /\ UNCHANGED <<storage, faulted, last>>
                /\ UNCHANGED screenVars
  /\ UNCHANGED <<now, started, idClock, scenario, overlapped, raced, themeVars>>

\* ------------------------------------------------------------ reads
\* the read a service method starts with, or starts again with: getTodos
\* or getNotes into the call's local array
Read(r, ok) ==
  [r EXCEPT !.pc = "resume", !.readOk = ok,
            !.list = IF r.svc = "todo" THEN getTodos(ok) ELSE getNotes(ok)]

\* getCategories on the notes getNotes returned: the distinct categories
\* that are not empty
getCategories(list) ==
  { list[i].val.category :
      i \in { j \in DOMAIN list : Has(list[j], "category") /\ list[j].val.category # "" } }

\* getAllTags on the notes getNotes returned: the distinct tags
getAllTags(list) ==
  UNION { { list[i].val.tags[k] : k \in DOMAIN list[i].val.tags } :
            i \in { j \in DOMAIN list : Has(list[j], "tags") } }

\* what getNotesStats returns, from its three locals
getNotesStats(notesRead, categories, tags) ==
  [total |-> Len(notesRead),
   pinned |-> Len(SelectSeq(notesRead, LAMBDA n : ~Not(n, "isPinned"))),
   categories |-> Cardinality(categories),
   tags |-> Cardinality(tags)]

\* the methods that return in the turn in which their read returns;
\* getAllTags stands for the last read of getNotesStats
Reading == {"getTodos", "getNotes", "searchNotes", "getTodosStats", "getAllTags"}

\* getNotesStats after its first and its second await: it keeps what the
\* read gave in a local and calls getCategories(), then getAllTags(), whose
\* read comes later
Await(r) ==
  CASE r.op = "getNotesStats" ->
         [r EXCEPT !.locals = <<r.list>>, !.op = "getCategories", !.pc = "getItem"]
    [] r.op = "getCategories" ->
         [r EXCEPT !.locals = Append(@, getCategories(r.list)),
                   !.op = "getAllTags", !.pc = "getItem"]
    [] OTHER -> r

\* what such a method returns: getTodos and getNotes the list itself
Answer(r) ==
  CASE r.op = "searchNotes" ->
         [r EXCEPT !.result = Some(searchNotes(r.list, r.data.val.query))]
    [] r.op = "getTodosStats" ->
         [r EXCEPT !.result = Some(getTodosStats(r.list))]
    [] r.op = "getAllTags" ->
         [r EXCEPT !.result = Some(getNotesStats(r.locals[1], r.locals[2],
                                                 getAllTags(r.list))),
                   !.locals = <<>>]
    [] OTHER -> r

\* the read of a call that was invoked earlier (a screen handler's call,
\* the updateTodo / updateNote inside a toggle)
getItem(c) ==
  /\ call[c].pc = "getItem"
  /\ \E ok \in Outcomes :
       /\ faulted' = (faulted \/ ~ok)
       /\ LET r == Read(call[c], ok)
          IN  IF call[c].op \in Reading
                THEN Settle(Seen(call, c, FALSE), c, Answer(r))
                ELSE /\ call' = Seen([call EXCEPT ![c] = Await(r)], c, FALSE)
                     /\ last' = last
                     /\ UNCHANGED screenVars
  /\ UNCHANGED <<storage, now, started, idClock, scenario, overlapped, raced, themeVars>>

\* a caller invokes a service method and the method's read returns
Start(c, svc, op, id, data) ==
  /\ call[c].pc = "idle"
  /\ \A d \in Slots : d < c => call[d].pc # "idle"
  /\ started < MaxCalls
  /\ started' = started + 1
  /\ \E ok \in Outcomes :
       /\ faulted' = (faulted \/ ~ok)
       /\ LET r == Read([IdleCall EXCEPT
                           !.svc = svc, !.op = op, !.via = op, !.id = id, !.data = data,
                           !.alone = TRUE], ok)
          IN  IF op \in Reading
                THEN Settle(Seen(call, c, FALSE), c, Answer(r))
                ELSE /\ call' = Seen([call EXCEPT ![c] = Await(r)], c, FALSE)
                     /\ last' = last
                     /\ UNCHANGED screenVars
  /\ UNCHANGED <<storage, now, idClock, scenario, overlapped, raced, themeVars>>

\* the scenarios in which the methods of service svc are called directly:
\* its own, and the one in which both services are
Callers(svc) == {svc, "both"}

\* removeItem that empties the whole store, as AsyncStorage.clear() does
removeItemClear(c, svc, op) ==
  /\ call[c].pc = "idle"
  /\ \A d \in Slots : d < c => call[d].pc # "idle"
  /\ started < MaxCalls
  /\ started' = started + 1
  /\ \E ok \in Outcomes :
       LET r == [IdleCall EXCEPT !.svc = svc, !.op = op, !.via = op,
                                 !.error = IF ok THEN "" ELSE "removeItem failed",
                                 !.before = storage[KeyOf(svc)]]
       IN  /\ faulted' = (faulted \/ ~ok)
           /\ storage' = IF ok THEN [k \in Keys |-> Null] ELSE storage
           /\ Settle(Seen([call EXCEPT ![c] = r], c, ok), c, r)
  /\ UNCHANGED <<now, idClock, scenario, overlapped, raced, themeVars>>

\* clearAllTodos / clearAllNotes: AsyncStorage.removeItem(key), uncaught
removeItem(c, svc, op) ==
  /\ call[c].pc = "idle"
  /\ \A d \in Slots : d < c => call[d].pc # "idle"
  /\ started < MaxCalls
  /\ started' = started + 1
  /\ \E ok \in Outcomes :
       LET r == [IdleCall EXCEPT !.svc = svc, !.op = op, !.via = op,
                                 !.error = IF ok THEN "" ELSE "removeItem failed",
                                 !.before = storage[KeyOf(svc)]]
       IN  /\ faulted' = (faulted \/ ~ok)
           /\ storage' = IF ok THEN [storage EXCEPT ![KeyOf(svc)] = Null] ELSE storage
           /\ Settle(Seen([call EXCEPT ![c] = r], c, ok), c, r)
  /\ UNCHANGED <<now, idClock, scenario, overlapped, raced, themeVars>>

clearAllTodosCall(c) == scenario \in Callers("todo") /\ removeItem(c, "todo", "clearAllTodos")

clearAllNotesCall(c) == scenario \in Callers("note") /\ removeItem(c, "note", "clearAllNotes")

getTodosCall(c) == scenario \in Callers("todo") /\ Start(c, "todo", "getTodos", "", NoData)

getTodoByIdCall(c, id) == scenario \in Callers("todo") /\ Start(c, "todo", "getTodoById", id, NoData)

createTodoCall(c, data) == scenario \in Callers("todo") /\ Start(c, "todo", "createTodo", "", data)

updateTodoCall(c, id, data) == scenario \in Callers("todo") /\ Start(c, "todo", "updateTodo", id, data)

deleteTodoCall(c, id) == scenario \in Callers("todo") /\ Start(c, "todo", "deleteTodo", id, NoData)

toggleTodoCall(c, id) == scenario \in Callers("todo") /\ Start(c, "todo", "toggleTodo", id, NoData)

getNotesCall(c) == scenario \in Callers("note") /\ Start(c, "note", "getNotes", "", NoData)

getNoteByIdCall(c, id) == scenario \in Callers("note") /\ Start(c, "note", "getNoteById", id, NoData)

createNoteCall(c, data) == scenario \in Callers("note") /\ Start(c, "note", "createNote", "", data)

updateNoteCall(c, id, data) == scenario \in Callers("note") /\ Start(c, "note", "updateNote", id, data)

deleteNoteCall(c, id) == scenario \in Callers("note") /\ Start(c, "note", "deleteNote", id, NoData)

\* queries: empty, a title in upper case, a tag, a content in lower case
SearchQueries == {"", "A", "t", "y"}

searchNotesCall(c, query) ==
  scenario \in Callers("note") /\ Start(c, "note", "searchNotes", "", Obj([query |-> query], {}))

getTodosStatsCall(c) == scenario \in Callers("todo") /\ Start(c, "todo", "getTodosStats", "", NoData)

getNotesStatsCall(c) == scenario \in Callers("note") /\ Start(c, "note", "getNotesStats", "", NoData)

togglePinNoteCall(c, id) == scenario \in Callers("note") /\ Start(c, "note", "togglePinNote", id, NoData)

\* ------------------------------------------------------------ screens
\* the service a method belongs to, and the screen that calls it
ServiceOf(op) ==
  IF op \in {"getNotes", "createNote", "updateNote", "deleteNote", "togglePinNote"}
    THEN "note" ELSE "todo"

ScreenOf(op) == IF ServiceOf(op) = "note" THEN "notes-screen" ELSE "screen"

Loaders == {"loadTodos", "loadNotes"}

\* A handler of the screen invokes a service method; the method's read
\* comes later, as getItem.  overlapped records whether a handler was ever
\* invoked while a call was in progress, raced whether a handler other than
\* loadTodos was ever invoked while the call of another such handler was in
\* progress; no operation reads them.  The screen shows its list and its buttons once
\* loading is false; the form is a modal above them.
Invoke(c, op, id, data, handler) ==
  /\ scenario = ScreenOf(op)
  /\ ~loading
  /\ call[c].pc = "idle"
  /\ \A d \in Slots : d < c => call[d].pc # "idle"
  /\ started < MaxCalls
  /\ started' = started + 1
  /\ call' = [call EXCEPT ![c] =
                [IdleCall EXCEPT !.svc = ServiceOf(op), !.op = op, !.via = op, !.id = id,
                                 !.data = data, !.handler = handler,
                                 !.pc = "getItem"]]
  /\ overlapped' = (overlapped \/ \E d \in Slots : InFlight(call[d]))
  /\ raced' = (raced \/ (/\ handler \notin Loaders
                          /\ \E d \in Slots : /\ InFlight(call[d])
                                               /\ call[d].handler \notin Loaders))
  /\ UNCHANGED <<storage, now, last, faulted, idClock, scenario, themeVars>>

\* what TodoForm.handleSubmit passes: all four keys, title not empty
TodoFormData ==
  { d \in CreateTodoDtos \cup UpdateTodoDtos :
      DOMAIN d.val \cup d.undef = {"title", "description", "priority", "dueDate"} }

\* TodoForm.handleSubmit: onSubmit(data), which starts handleUpdateTodo or
\* handleCreateTodo, then onClose()
handleSubmit(c, data) ==
  /\ showForm
  /\ IF editingTodo # Null
       THEN Invoke(c, "updateTodo", editingTodo[1].val.id, data, "handleUpdateTodo")
       ELSE Invoke(c, "createTodo", "", data, "handleCreateTodo")
  /\ showForm' = FALSE
  /\ editingTodo' = Null
  /\ UNCHANGED <<todos, loading, refreshing, noteVars>>

handleToggleTodoCall(c, id) ==
  /\ ~showForm
  /\ Invoke(c, "toggleTodo", id, NoData, "handleToggleTodo")
  /\ UNCHANGED screenVars

handleDeleteTodoCall(c, id) ==
  /\ ~showForm
  /\ Invoke(c, "deleteTodo", id, NoData, "handleDeleteTodo")
  /\ UNCHANGED screenVars

handleRefresh(c) ==
  /\ ~showForm
  /\ Invoke(c, "getTodos", "", NoData, "loadTodos")
  /\ refreshing' = TRUE
  /\ UNCHANGED <<todos, loading, showForm, editingTodo, noteVars>>

handleEditTodo(todo) ==
  /\ scenario = "screen"
  /\ ~loading
  /\ ~showForm
  /\ editingTodo' = Some(todo)
  /\ showForm' = TRUE
  /\ UNCHANGED <<storage, now, call, last, started, faulted, idClock, scenario, overlapped, raced, themeVars,
                 todos, loading, refreshing, noteVars>>

\* the + button: setShowForm(true)
onPress ==
  /\ scenario = "screen"
  /\ ~loading
  /\ ~showForm
  /\ showForm' = TRUE
  /\ UNCHANGED <<storage, now, call, last, started, faulted, idClock, scenario, overlapped, raced, themeVars,
                 todos, loading, refreshing, editingTodo, noteVars>>

handleCloseForm ==
  /\ scenario = "screen"
  /\ showForm
  /\ showForm' = FALSE
  /\ editingTodo' = Null
  /\ UNCHANGED <<storage, now, call, last, started, faulted, idClock, scenario, overlapped, raced, themeVars,
                 todos, loading, refreshing, noteVars>>

\* ------------------------------------------------------------ NotesScreen
\* what NoteForm.handleSubmit passes: all five keys, title and content not
\* empty
NoteFormData ==
  { d \in CreateNoteDtos \cup UpdateNoteDtos :
      DOMAIN d.val \cup d.undef = {"title", "content", "category", "tags", "isPinned"} }

\* NoteForm.handleSubmit: onSubmit(data), which starts handleUpdateNote or
\* handleCreateNote, then onClose()
handleSubmitNote(c, data) ==
  /\ showForm
  /\ IF editingNote # Null
       THEN Invoke(c, "updateNote", editingNote[1].val.id, data, "handleUpdateNote")
       ELSE Invoke(c, "createNote", "", data, "handleCreateNote")
  /\ showForm' = FALSE
  /\ editingNote' = Null
  /\ UNCHANGED <<notes, loading, refreshing, todoVars>>

handleTogglePinCall(c, id) ==
  /\ ~showForm
  /\ Invoke(c, "togglePinNote", id, NoData, "handleTogglePin")
  /\ UNCHANGED screenVars

handleDeleteNoteCall(c, id) ==
  /\ ~showForm
  /\ Invoke(c, "deleteNote", id, NoData, "handleDeleteNote")
  /\ UNCHANGED screenVars

\* NotesScreen's handleRefresh
handleRefreshNotes(c) ==
  /\ ~showForm
  /\ Invoke(c, "getNotes", "", NoData, "loadNotes")
  /\ refreshing' = TRUE
  /\ UNCHANGED <<notes, loading, showForm, editingNote, todoVars>>

handleEditNote(note) ==
  /\ scenario = "notes-screen"
  /\ ~loading
  /\ ~showForm
  /\ editingNote' = Some(note)
  /\ showForm' = TRUE
  /\ UNCHANGED <<storage, now, call, last, started, faulted, idClock, scenario, overlapped, raced, themeVars,
                 notes, loading, refreshing, todoVars>>

\* NotesScreen's + button: setShowForm(true)
onPressNotes ==
  /\ scenario = "notes-screen"
  /\ ~loading
  /\ ~showForm
  /\ showForm' = TRUE
  /\ UNCHANGED <<storage, now, call, last, started, faulted, idClock, scenario, overlapped, raced, themeVars,
                 notes, loading, refreshing, editingNote, todoVars>>

\* NotesScreen's handleCloseForm
handleCloseFormNotes ==
  /\ scenario = "notes-screen"
  /\ showForm
  /\ showForm' = FALSE
  /\ editingNote' = Null
  /\ UNCHANGED <<storage, now, call, last, started, faulted, idClock, scenario, overlapped, raced, themeVars,
                 notes, loading, refreshing, todoVars>>

\* ------------------------------------------------------------ theme
\* ColorSchemeName: 'light' | 'dark' | null
ColorSchemeNames == {"light", "dark", "null"}

ThemeModes == {"light", "dark", "auto"}

\* everything but the theme
appVars == <<storage, now, call, last, started, faulted, idClock, scenario,
             todos, loading, refreshing, showForm, editingTodo, overlapped, raced,
             notes, editingNote>>

\* an effect that follows the system only in mode 'auto'
RootLayoutInAuto(scheme) ==
  /\ scenario = "theme"
  /\ scheme # systemColorScheme
  /\ systemColorScheme' = scheme
  /\ colorScheme' = IF mode = "auto" THEN scheme ELSE colorScheme
  /\ UNCHANGED <<mode, appVars>>

\* the system colour scheme becomes scheme: useColorScheme() gives it and
\* the effect of RootLayout, whose dependency it is, runs setColorScheme
RootLayout(scheme) ==
  /\ scenario = "theme"
  /\ scheme # systemColorScheme
  /\ systemColorScheme' = scheme
  /\ colorScheme' = scheme
  /\ UNCHANGED <<mode, appVars>>

\* Settings: setColorScheme(isDark ? 'light' : 'dark')
toggleTheme ==
  /\ scenario = "theme"
  /\ colorScheme' = IF colorScheme = "dark" THEN "light" ELSE "dark"
  /\ UNCHANGED <<mode, systemColorScheme, appVars>>

\* the store's toggleColorScheme
toggleColorScheme ==
  /\ scenario = "theme"
  /\ colorScheme' = IF colorScheme = "dark" THEN "light" ELSE "dark"
  /\ UNCHANGED <<mode, systemColorScheme, appVars>>

setThemeMode(m) ==
  /\ scenario = "theme"
  /\ mode' = m
  /\ UNCHANGED <<colorScheme, systemColorScheme, appVars>>

\* ------------------------------------------------------------ behaviours
\* The app starts with what earlier sessions left in storage: nothing, or
\* a collection the service wrote (two records created at different
\* instants, the second completed / pinned since; two records created at
\* the same instant).
FirstClock == 2

StoredTodos ==
  LET a == CHOOSE d \in CreateTodoDtos : d.val.title = "a"
      b == CHOOSE d \in CreateTodoDtos : d.val.title = "b"
  IN  { Null,
        Some(JSONstringify(
          <<newTodo(a, 1, 1, 1),
            Spread(Spread(newTodo(b, 2, 2, 2), Obj([completed |-> TRUE], {})),
                   updatedAt(2))>>)),
        Some(JSONstringify(<<newTodo(b, 1, 1, 1), newTodo(a, 1, 1, 1)>>)) }

StoredNotes ==
  LET a == CHOOSE d \in CreateNoteDtos : d.val.title = "a"
      b == CHOOSE d \in CreateNoteDtos : d.val.title = "b"
  IN  { Null,
        Some(JSONstringify(<<newNote(a, 1, 1, 1), newNote(b, 2, 2, 2)>>)),
        Some(JSONstringify(<<newNote(a, 1, 1, 1), newNote(b, 1, 1, 1)>>)) }

\* the creates that made a stored collection, when no record of it was lost
CreatedSoFar(coll) ==
  [max |-> IF coll = <<>> THEN 0
           ELSE CHOOSE t \in 0..MaxClock :
                  /\ \E i \in DOMAIN coll : coll[i].id = DateNowToString(t)
                  /\ \A i \in DOMAIN coll : \A u \in (t + 1)..MaxClock :
                        coll[i].id # DateNowToString(u),
   increasing |-> \A i, j \in DOMAIN coll : i # j => coll[i].id # coll[j].id]

\* TodoScreen mounts: its effect has called loadTodos, whose getTodos is
\* waiting for storage
Mounted ==
  [IdleCall EXCEPT !.svc = "todo", !.op = "getTodos", !.via = "getTodos",
                   !.handler = "loadTodos", !.pc = "getItem"]

\* the scenarios whose client uses the note service
NoteScenarios == {"note", "notes-screen"}

\* the state after construction when the client of the services is sc
Boot(sc) ==
  /\ scenario = sc
  /\ storage \in
       IF sc = "both"
         THEN { [k \in Keys |-> IF k = TODOS_KEY THEN vt ELSE vn] :
                  vt \in StoredTodos, vn \in StoredNotes }
         ELSE { [k \in Keys |-> IF k = NOTES_KEY <=> sc \in NoteScenarios THEN v ELSE Null] :
                  v \in IF sc \in NoteScenarios THEN StoredNotes ELSE StoredTodos }
  /\ now = FirstClock
  /\ call = [c \in Slots |-> IF scenario = "screen" /\ c = 1 THEN Mounted
                            ELSE IF scenario = "notes-screen" /\ c = 1 THEN LoadNotes
                            ELSE IdleCall]
  /\ last = IdleCall
  /\ todos = <<>>
  /\ loading = TRUE
  /\ refreshing = FALSE
  /\ showForm = FALSE
  /\ editingTodo = Null
  /\ notes = <<>>
  /\ editingNote = Null
  /\ started = 0
  /\ overlapped = FALSE
  /\ raced = FALSE
  /\ faulted = FALSE
  /\ idClock = [k \in Keys |-> CreatedSoFar(Coll(storage[k]))]
  /\ systemColorScheme \in IF sc = "theme" THEN ColorSchemeNames ELSE {"light"}
  /\ colorScheme = systemColorScheme
  /\ mode = "auto"

\* callers of the two services
Init == \E sc \in {"todo", "note"} : Boot(sc)

\* the screens of the app
ScreenInit == \E sc \in {"screen", "notes-screen", "theme"} : Boot(sc)

Next ==
  \/ \E c \in Slots : getTodosCall(c)
  \/ \E c \in Slots, id \in IdArgs : getTodoByIdCall(c, id)
  \/ \E c \in Slots, data \in CreateTodoDtos : createTodoCall(c, data)
  \/ \E c \in Slots, id \in IdArgs, data \in UpdateTodoDtos : updateTodoCall(c, id, data)
  \/ \E c \in Slots, id \in IdArgs : deleteTodoCall(c, id)
  \/ \E c \in Slots, id \in IdArgs : toggleTodoCall(c, id)
  \/ \E c \in Slots : getTodoById(c)
  \/ \E c \in Slots : createTodo(c)
  \/ \E c \in Slots : updateTodo(c)
  \/ \E c \in Slots : deleteTodo(c)
  \/ \E c \in Slots : toggleTodo(c)
  \/ \E c \in Slots : getNotesCall(c)
  \/ \E c \in Slots, id \in IdArgs : getNoteByIdCall(c, id)
  \/ \E c \in Slots, data \in CreateNoteDtos : createNoteCall(c, data)
  \/ \E c \in Slots, id \in IdArgs, data \in UpdateNoteDtos : updateNoteCall(c, id, data)
  \/ \E c \in Slots, id \in IdArgs : deleteNoteCall(c, id)
  \/ \E c \in Slots, id \in IdArgs : togglePinNoteCall(c, id)
  \/ \E c \in Slots : getNoteById(c)
  \/ \E c \in Slots : createNote(c)
  \/ \E c \in Slots : updateNote(c)
  \/ \E c \in Slots : deleteNote(c)
  \/ \E c \in Slots : togglePinNote(c)
  \/ \E c \in Slots : getItem(c)
  \/ \E c \in Slots, query \in SearchQueries : searchNotesCall(c, query)
  \/ \E c \in Slots : getTodosStatsCall(c)
  \/ \E c \in Slots : getNotesStatsCall(c)
  \/ \E c \in Slots : clearAllTodosCall(c)
  \/ \E c \in Slots : clearAllNotesCall(c)

ScreenNext ==
  \/ \E c \in Slots : createTodo(c)
  \/ \E c \in Slots : updateTodo(c)
  \/ \E c \in Slots : deleteTodo(c)
  \/ \E c \in Slots : toggleTodo(c)
  \/ \E c \in Slots : getItem(c)
  \/ \E c \in Slots : createNote(c)
  \/ \E c \in Slots : updateNote(c)
  \/ \E c \in Slots : deleteNote(c)
  \/ \E c \in Slots : togglePinNote(c)
  \/ \E c \in Slots, data \in NoteFormData : handleSubmitNote(c, data)
  \/ \E c \in Slots : \E i \in DOMAIN notes : handleTogglePinCall(c, notes[i].val.id)
  \/ \E c \in Slots : \E i \in DOMAIN notes : handleDeleteNoteCall(c, notes[i].val.id)
  \/ \E c \in Slots : handleRefreshNotes(c)
  \/ \E i \in DOMAIN notes : handleEditNote(notes[i])
  \/ onPressNotes
  \/ handleCloseFormNotes
  \/ \E c \in Slots, data \in TodoFormData : handleSubmit(c, data)
  \/ \E c \in Slots : \E i \in DOMAIN todos : handleToggleTodoCall(c, todos[i].val.id)
  \/ \E c \in Slots : \E i \in DOMAIN todos : handleDeleteTodoCall(c, todos[i].val.id)
  \/ \E c \in Slots : handleRefresh(c)
  \/ \E i \in DOMAIN todos : handleEditTodo(todos[i])
  \/ onPress
  \/ handleCloseForm
  \/ \E scheme \in ColorSchemeNames : RootLayout(scheme)
  \/ toggleTheme
  \/ toggleColorScheme
  \/ \E m \in ThemeModes : setThemeMode(m)

Spec == Init /\ [][Next]_vars

ScreenSpec == ScreenInit /\ [][ScreenNext]_vars

\* the screens on a first launch (nothing stored yet), with every storage
\* read that was requested returning in the end, with the data or with an
\* error
ScreenLiveInit == ScreenInit /\ storage = [k \in Keys |-> Null]

ScreenLiveSpec ==
  ScreenLiveInit /\ [][ScreenNext]_vars /\ WF_vars(\E c \in Slots : getItem(c))

\* one client of both services, both collections stored
ServicesInit == Boot("both")

ServicesSpec == ServicesInit /\ [][Next]_vars

\* the services' callers and the screens together
AppInit == Init \/ ScreenInit

AppNext == Next \/ ScreenNext

AppSpec == AppInit /\ [][AppNext]_vars

\* ------------------------------------------------------------ properties
\* What the claims speak of: the last settled call, the collection it found
\* in storage and the collection in storage now.
Todos == Coll(storage[TODOS_KEY])
Notes == Coll(storage[NOTES_KEY])
Before == Coll(last.before)
Returned == last.result[1].val

\* the last settled call was the method op, called directly, and its storage
\* accesses succeeded
Settled(svc, op) ==
  /\ last.pc = "done"
  /\ last.svc = svc
  /\ last.via = op
  /\ last.readOk
  /\ last.error \notin {"Failed to save todos", "Failed to save notes"}

\* what getTodoById(id) gives in the current state, as stored
Lookup(coll, id) == JSONstringify(find(JSONparse(coll), id))

HasId(coll, id) == \E i \in DOMAIN coll : coll[i].id = id

\* the collection a call of the service reads when storage holds coll
AsRead(svc, coll) ==
  IF svc = "todo" THEN coll ELSE JSONstringify(sortNotes(JSONparse(coll)))

\* the collection the last settled call computes from the collection x
Computed(x) ==
  IF last.via \in {"createTodo", "createNote"} THEN Append(x, Returned)
  ELSE IF last.via \in {"updateTodo", "updateNote"}
    THEN [x EXCEPT ![findIndex(JSONparse(x), last.id)] = Returned]
    ELSE JSONstringify(filterNotId(JSONparse(x), last.id))

Mutating == {"createTodo", "updateTodo", "deleteTodo",
             "createNote", "updateNote", "deleteNote"}

\* the last settled call is a mutating call (with a target, if it is an
\* update) that read the collection before another call wrote, and wrote
\* after it
WroteAfterMissedWrite ==
  /\ last.pc = "done"
  /\ last.via \in Mutating
  /\ last.readOk
  /\ last.error \notin {"Failed to save todos", "Failed to save notes"}
  /\ last.stale
  /\ last.via \in {"updateTodo", "updateNote"} =>
        HasId(Coll(last.base), last.id)

\* C1: when a mutating call reads the collection before another mutating
\* call of the service writes, and writes after it, both succeed and the
\* collection in storage is the one the later writer computes from what it
\* read, the collection from before the earlier write: the earlier
\* writer's change is not in it.
C1_LostUpdate ==
  WroteAfterMissedWrite =>
    /\ last.error = ""
    /\ storage[KeyOf(last.svc)] =
         Some(Computed(AsRead(last.svc, Coll(last.base))))

\* the earlier writer had appended a todo, the later writer updated one: the
\* appended todo is gone
C1_Witness ==
  /\ WroteAfterMissedWrite
  /\ last.via = "updateTodo"
  /\ Len(Before) = Len(Coll(last.base)) + 1
  /\ Len(Todos) = Len(Coll(last.base))
  /\ ~HasId(Todos, Before[Len(Before)].id)

\* the last settled call is a create that read the collection in storage,
\* met no writer and stored its record
Created ==
  /\ \/ Settled("todo", "createTodo")
     \/ Settled("note", "createNote")
  /\ last.error = ""
  /\ ~last.stale

IdCount(coll, id) == Cardinality({i \in DOMAIN coll : coll[i].id = id})

Distinct(coll) == \A i, j \in DOMAIN coll : i # j => coll[i].id # coll[j].id

\* C3: the id of a created record is the clock value read for it, as a
\* string; a create that reads the clock value of an earlier create whose
\* record is in the collection stores a second record with that id; and as
\* long as every create has read a strictly larger clock value than every
\* create before it, the ids of each stored collection are pairwise
\* distinct.
C3_IdFromClock ==
  /\ Created =>
        /\ \E t \in FirstClock..now : Returned.id = DateNowToString(t)
        /\ HasId(Before, Returned.id) =>
              IdCount(Coll(storage[KeyOf(last.svc)]), Returned.id) >= 2
  /\ \A k \in Keys : idClock[k].increasing => Distinct(Coll(storage[k]))

\* two todos created in this session at the same clock value
C3_Witness ==
  /\ Created
  /\ last.svc = "todo"
  /\ Len(Before) = 1
  /\ IdCount(Todos, Returned.id) = 2
  /\ ~idClock[TODOS_KEY].increasing

\* the last settled call is an update, or the update of a toggle, that read
\* the collection in storage, met no writer and stored its record
Updated ==
  /\ last.pc = "done"
  /\ last.op \in {"updateTodo", "updateNote"}
  /\ last.readOk
  /\ last.error = ""
  /\ ~last.stale

\* the collection the last settled call read, and the record it updated
WasRead == AsRead(last.svc, Before)
Target == WasRead[findIndex(JSONparse(WasRead), last.id)]

\* C4: an update or toggle leaves createdAt as it was and sets updatedAt to
\* the clock value of the call; a created record has both from the clock;
\* and in every stored record updatedAt is not before createdAt.
C4_Timestamps ==
  /\ Updated =>
        /\ Returned.createdAt = Target.createdAt
        /\ Returned.updatedAt = toISOString(now)
  /\ Created =>
        /\ getTime(Returned.createdAt) \in FirstClock..now
        /\ Returned.updatedAt = toISOString(now)
  /\ \A k \in Keys : \A i \in DOMAIN Coll(storage[k]) :
        getTime(Coll(storage[k])[i].updatedAt) >= getTime(Coll(storage[k])[i].createdAt)

\* a toggle at a later clock value than the creation of its todo
C4_Witness ==
  /\ Updated
  /\ last.via = "toggleTodo"
  /\ getTime(Returned.updatedAt) > getTime(Returned.createdAt)
  /\ Target.updatedAt = Target.createdAt

\* the read of the last settled call op failed, and its write, if any, did not
ReadFailed(op) ==
  /\ last.pc = "done"
  /\ last.via = op
  /\ ~last.readOk
  /\ last.error \notin {"Failed to save todos", "Failed to save notes"}

\* C5: when the storage read fails, getTodos / getNotes return the empty
\* list; createTodo then stores a collection holding only the new todo,
\* deleteTodo stores the empty collection, and updateTodo throws 'Todo not
\* found' and stores nothing, whatever the collection in storage was.
C5_ReadFailure ==
  /\ (ReadFailed("getTodos") \/ ReadFailed("getNotes")) => last.list = <<>>
  /\ ReadFailed("createTodo") => last.error = "" /\ Todos = <<Returned>>
  /\ ReadFailed("deleteTodo") => last.error = "" /\ storage[TODOS_KEY] = Some(<<>>)
  /\ ReadFailed("updateTodo") =>
        /\ last.error = "Todo not found"
        /\ last.result = Null
        /\ last.wrote = Null
        /\ storage[TODOS_KEY] = last.before

\* the last settled call is one whose setItem threw
WriteFailed ==
  /\ last.pc = "done"
  /\ ~last.saveOk

\* C6: when the storage write of a create, update or delete fails, the call
\* rejects with 'Failed to save todos' (a note call with 'Failed to save
\* notes'), storage holds what it held, and the TodoScreen handler that
\* awaited the call leaves the screen's todos as they were.
C6_WriteFailure ==
  WriteFailed =>
    /\ last.op \in Mutating
    /\ last.result = Null
    /\ last.error = IF last.svc = "todo" THEN "Failed to save todos"
                                         ELSE "Failed to save notes"
    /\ last.wrote = Null
    /\ storage[KeyOf(last.svc)] = last.before
    /\ last.handler # "" => todos = last.shown

\* the screen shows two todos, Delete on one of them, and the write fails
C6_Witness ==
  /\ WriteFailed
  /\ last.handler = "handleDeleteTodo"
  /\ Len(todos) = 2
  /\ \E i \in DOMAIN todos : todos[i].val.id = last.id
  /\ \E i \in DOMAIN todos : todos[i].val.id # last.id
  /\ Len(Todos) = 2

\* two todos were in storage; after the create only the new one is
C5_Witness ==
  /\ ReadFailed("createTodo")
  /\ Len(Before) = 2
  /\ Todos = <<Returned>>

Occurrences(coll, x) == Cardinality({i \in DOMAIN coll : coll[i] = x})

IsPermutation(a, b) ==
  /\ Len(a) = Len(b)
  /\ \A i \in DOMAIN a : Occurrences(a, a[i]) = Occurrences(b, a[i])

\* the list the last settled getNotes returned
Listed == JSONstringify(last.list)

GotNotes ==
  /\ last.pc = "done"
  /\ last.via = "getNotes"
  /\ last.readOk

\* C7: when its read succeeds, getNotes returns a permutation of the stored
\* notes in which every pinned note precedes every unpinned one and, among
\* the pinned and among the unpinned, a note with a later updatedAt
\* precedes a note with an earlier one.
C7_GetNotesSorted ==
  GotNotes =>
    /\ IsPermutation(Listed, Notes)
    /\ \A i, j \in DOMAIN Listed :
         Listed[i].isPinned /\ ~Listed[j].isPinned => i < j
    /\ \A i, j \in DOMAIN Listed :
         /\ Listed[i].isPinned = Listed[j].isPinned
         /\ getTime(Listed[i].updatedAt) > getTime(Listed[j].updatedAt)
         => i < j

\* three stored notes, a pinned one stored after an unpinned one and a newer
\* unpinned one stored after an older one: getNotes reorders them
C7_Witness ==
  /\ GotNotes
  /\ Len(Listed) = 3
  /\ Listed # Notes
  /\ \E i, j \in DOMAIN Notes : i < j /\ ~Notes[i].isPinned /\ Notes[j].isPinned
  /\ \E i, j \in DOMAIN Notes :
       /\ i < j
       /\ Notes[i].isPinned = Notes[j].isPinned
       /\ getTime(Notes[i].updatedAt) < getTime(Notes[j].updatedAt)

\* the last settled call is a direct updateTodo / updateNote whose storage
\* accesses succeeded and that met no writer
UpdateCalled ==
  /\ \/ Settled("todo", "updateTodo")
     \/ Settled("note", "updateNote")
  /\ ~last.stale

NotFound == IF last.svc = "todo" THEN "Todo not found" ELSE "Note not found"

UpdateOfMissing ==
  /\ last.error = NotFound
  /\ last.result = Null
  /\ last.wrote = Null
  /\ storage[KeyOf(last.svc)] = last.before

\* the record old with the fields present in data overridden (a field
\* present with the value undefined is not stored)
Overridden(old, data) ==
  [k \in ((DOMAIN old) \ data.undef) \cup DOMAIN data.val |->
     IF k \in DOMAIN data.val THEN data.val[k] ELSE old[k]]

FirstWithId(coll, id) ==
  CHOOSE i \in DOMAIN coll : coll[i].id = id /\ \A j \in 1..(i - 1) : coll[j].id # id

\* the stored collection is coll with the record at index i replaced by rec
Replaced(coll, i, rec) ==
  /\ last.error = ""
  /\ last.result # Null
  /\ Returned = rec
  /\ storage[KeyOf(last.svc)] = Some([coll EXCEPT ![i] = rec])
  /\ rec.id = last.id

\* C8 as stated: update of an id no stored record has throws and stores
\* nothing; update of an existing id replaces the first stored record with
\* that id, in place, by that record with exactly the fields of data
\* overridden.
C8_AsStated ==
  UpdateCalled =>
    IF ~HasId(Before, last.id)
      THEN UpdateOfMissing
      ELSE LET i == FirstWithId(Before, last.id)
           IN  Replaced(Before, i, Overridden(Before[i], last.data))

\* C8, amended: as stated, except that the first record, its position and
\* the order of the stored collection are those of the collection as the
\* service reads it (the stored order for todos, the getNotes order for
\* notes), and that updatedAt is overridden too, by the clock value of the
\* call.
C8_UpdateInPlace ==
  UpdateCalled =>
    IF ~HasId(Before, last.id)
      THEN UpdateOfMissing
      ELSE LET i == FirstWithId(WasRead, last.id)
           IN  Replaced(WasRead, i,
                        Overridden(Overridden(WasRead[i], last.data),
                                   Obj([updatedAt |-> toISOString(now)], {})))

\* two todos with the id: the first loses its description and gets the
\* title, the second stays
C8_Witness ==
  /\ UpdateCalled
  /\ last.svc = "todo"
  /\ IdCount(Before, last.id) = 2
  /\ "description" \in DOMAIN Before[1]
  /\ "description" \notin DOMAIN Todos[1]
  /\ Todos[1].title = "c"
  /\ Todos[2] = Before[2]
  /\ Todos[2].id = last.id

\* the last settled call is a toggleTodo that ran alone and whose storage
\* accesses succeeded
ToggledAlone == Settled("todo", "toggleTodo") /\ last.alone

ToggleEffect ==
  ToggledAlone =>
    IF ~HasId(Before, last.id)
      THEN /\ last.result = Null
           /\ last.error = ""
           /\ last.wrote = Null
           /\ storage[TODOS_KEY] = last.before
      ELSE LET i == FirstWithId(Before, last.id)
           IN  "completed" \in DOMAIN Before[i] =>
                 Replaced(Before, i,
                          [Before[i] EXCEPT !.completed = ~@,
                                            !.updatedAt = toISOString(now)])

\* a toggle of an id settles right after a toggle of the same id settled:
\* completed of the todo is what it was before the first
SecondToggleRestores ==
  ( /\ ToggledAlone /\ HasId(Before, last.id)
    /\ "completed" \in DOMAIN Before[FirstWithId(Before, last.id)]
    /\ ToggledAlone' /\ last'.id = last.id
    /\ last'.before = last.wrote )
  => LET i == FirstWithId(Before, last.id)
     IN  Todos'[i].completed = Before[i].completed

\* C9: toggleTodo run alone flips completed of the first todo with the id
\* (a stored todo that has a completed flag),
\* changes nothing else of it but updatedAt and no other todo; for an id no
\* todo has it returns null, throws nothing and stores nothing; a second
\* toggle of the id right after the first restores completed.
C9_Toggle == [][ToggleEffect' /\ SecondToggleRestores]_vars

\* a toggle of a completed todo that an earlier call of the session had
\* completed
C9_Witness ==
  /\ ToggledAlone
  /\ HasId(Before, last.id)
  /\ Before[FirstWithId(Before, last.id)].title = "a"
  /\ "completed" \in DOMAIN Before[FirstWithId(Before, last.id)]
  /\ Before[FirstWithId(Before, last.id)].completed
  /\ ~Returned.completed
  /\ Len(Todos) = 2

\* the last settled call is a delete that ran alone and whose storage
\* accesses succeeded
Deleted ==
  /\ \/ Settled("todo", "deleteTodo")
     \/ Settled("note", "deleteNote")
  /\ last.alone

\* the records of coll whose id is not id, in the order of coll
Without(coll, id) == SelectSeq(coll, LAMBDA r : r.id # id)

\* a delete of an id settles right after a delete of the same id settled:
\* the collection in storage stays what the first left
SecondDeleteSame ==
  ( /\ Deleted /\ Deleted'
    /\ last'.svc = last.svc /\ last'.id = last.id
    /\ last' # last
    /\ last'.before = last.wrote )
  => storage'[KeyOf(last.svc)] = last.wrote

\* C10 as stated: a delete run alone raises no error and leaves in storage
\* the stored records whose id is not the argument, unchanged and in their
\* stored order; a second delete of the id changes nothing more.
C10_AsStated ==
  [][ (Deleted' =>
         /\ last'.error = ""
         /\ Coll(storage'[KeyOf(last'.svc)]) = Without(Before', last'.id))
      /\ SecondDeleteSame ]_vars

\* C10: a delete run alone raises no error and leaves in storage the
\* records whose id is not the argument, unchanged, in the order the
\* service reads them: the stored order for todos, the getNotes order for
\* notes; so also for an id no record has; a second delete of the id
\* changes nothing more.
C10_Delete ==
  [][ (Deleted' =>
         /\ last'.error = ""
         /\ last'.result = Null
         /\ storage'[KeyOf(last'.svc)] =
              Some(Without(AsRead(last'.svc, Before'), last'.id)))
      /\ SecondDeleteSame ]_vars

\* deleteNote of an id no note has, and the stored notes change places
C10_Witness ==
  /\ Deleted
  /\ last.svc = "note"
  /\ ~HasId(Before, last.id)
  /\ Len(Notes) = 2
  /\ Notes # Before
  /\ Notes = <<Before[2], Before[1]>>

Priorities == {"low", "medium", "high"}

\* the last settled call is a createTodo that stored its todo
CreateStored ==
  /\ last.pc = "done"
  /\ last.via = "createTodo"
  /\ last.wrote # Null

\* C11: every stored todo has a boolean completed and a priority among low,
\* medium, high; the todo a createTodo stores has completed = false and the
\* priority of its data, medium when the data has none.
C11_AsStated ==
  /\ \A i \in DOMAIN Todos :
       /\ "completed" \in DOMAIN Todos[i]
       /\ Todos[i].completed \in BOOLEAN
       /\ "priority" \in DOMAIN Todos[i]
       /\ Todos[i].priority \in Priorities
  /\ CreateStored =>
       LET stored == Coll(last.wrote)
           todo == stored[Len(stored)]
       IN  /\ todo.completed = FALSE
           /\ todo.priority = IF Has(last.data, "priority")
                                THEN last.data.val.priority ELSE "medium"

\* no service call is in progress
Quiet == \A c \in Slots : ~InFlight(call[c])

UniqueIds(coll) == \A i, j \in DOMAIN coll : coll[i].id = coll[j].id => i = j

\* TodoScreen has loaded, every storage access so far succeeded, no handler
\* was invoked while a call was in progress, and stored ids are unique
OneAtATime ==
  /\ scenario = "screen"
  /\ ~loading
  /\ ~faulted
  /\ ~overlapped
  /\ UniqueIds(Todos)

\* C12: when TodoScreen has loaded, ids are unique, storage calls succeed
\* and the handlers run one at a time, then after every handler the todos
\* of the screen are the stored todos, in the stored order.
C12_ScreenShowsStore ==
  OneAtATime /\ Quiet => JSONstringify(todos) = Todos

\* a create through the form, then an edit of the new todo through the form
C12_Witness ==
  /\ OneAtATime
  /\ Quiet
  /\ started = 2
  /\ last.handler = "handleUpdateTodo"
  /\ last.error = ""
  /\ Len(todos) = 3
  /\ todos[3].val.id = last.id
  /\ todos[3].undef # {}

\* C13: a change of the system colour scheme puts the new system value in
\* the store's colorScheme, whatever the toggle had chosen and whatever
\* mode is; while the system value stays, colorScheme changes only by a
\* toggle; a change of mode leaves colorScheme alone.
C13_ThemeFollowsSystem ==
  [][ /\ systemColorScheme' # systemColorScheme =>
          colorScheme' = systemColorScheme'
      /\ systemColorScheme' = systemColorScheme =>
          colorScheme' \in {colorScheme,
                            IF colorScheme = "dark" THEN "light" ELSE "dark"}
      /\ mode' # mode => colorScheme' = colorScheme ]_vars

\* mode is 'dark', the system is light and the toggle has chosen dark
C13_Witness ==
  /\ scenario = "theme"
  /\ mode = "dark"
  /\ systemColorScheme = "light"
  /\ colorScheme = "dark"

\* the last settled call is a searchNotes whose read succeeded
Searched ==
  /\ last.pc = "done"
  /\ last.via = "searchNotes"
  /\ last.readOk

\* C14: searchNotes(query) returns exactly the stored notes whose title or
\* whose content contains the query, compared case-insensitively, in
\* getNotes order.
C14_AsStated ==
  Searched =>
    JSONstringify(last.result[1]) =
      SelectSeq(AsRead("note", Notes), LAMBDA note :
        \/ includes(toLowerCase(note.title), toLowerCase(last.data.val.query))
        \/ includes(toLowerCase(note.content), toLowerCase(last.data.val.query)))

\* the last settled call is a getTodosStats
StatsGot ==
  /\ last.pc = "done"
  /\ last.via = "getTodosStats"

\* the stored todos (none, when the read failed) that getTodosStats counted
Counted == IF last.readOk THEN Todos ELSE <<>>

\* C15: the counts getTodosStats returns are counts of one read of the
\* collection: total of all its todos, highPriority of exactly those that
\* are not completed and have priority high, total = completed + active and
\* highPriority <= active; the stats of TodoScreen's header have
\* total = active + completed whatever the screen's todos are.
C15_Stats ==
  /\ StatsGot =>
       LET r == last.result[1]
       IN  /\ r.total = Len(Counted)
           /\ r.total = r.completed + r.active
           /\ r.highPriority <= r.active
           /\ r.highPriority =
                Cardinality({i \in DOMAIN Counted :
                   /\ "priority" \in DOMAIN Counted[i]
                   /\ Counted[i].priority = "high"
                   /\ ~("completed" \in DOMAIN Counted[i] /\ Counted[i].completed)})
  /\ stats.total = stats.active + stats.completed
  /\ stats.total = Len(todos)

\* three stored todos: one completed with priority high, one active with
\* priority high, one active with priority medium
C15_Witness ==
  /\ StatsGot
  /\ last.result[1] = [total |-> 3, completed |-> 1, active |-> 2, highPriority |-> 1]
  /\ \E i \in DOMAIN Todos : Todos[i].priority = "high" /\ Todos[i].completed

\* the last settled call is a toggleTodo that succeeded; since its first
\* read exactly one call of the service wrote, a toggleTodo of the same id
\* that had itself missed no write
ToggleRace ==
  /\ Settled("todo", "toggleTodo")
  /\ last.missed = << <<"toggleTodo", last.id, 0>> >>

\* C16: when two toggleTodo calls of an id both read the todo before either
\* writes, both return a todo and the later writes the value the earlier
\* wrote: the flag in storage is the one the earlier left, flipped once.
C16_ToggleRace ==
  ToggleRace =>
    LET i == FirstWithId(Before, last.id)
    IN  /\ last.error = ""
        /\ last.result # Null
        /\ HasId(Before, last.id)
        /\ Returned.completed = Before[i].completed
        /\ Todos[FirstWithId(Todos, last.id)].completed = Before[i].completed

\* the later toggle read the collection again after the earlier had written
\* and wrote to it uninterrupted
C16_Witness ==
  /\ ToggleRace
  /\ ~last.stale
  /\ Returned.completed
  /\ Len(Todos) = 2

\* the last settled call is a toggle whose lookup found the record and whose
\* update read the collection after a delete of the id, or a clear, had
\* removed it: the removal is the last write the call missed and came
\* before the update's read
RemovedUnderToggle ==
  /\ last.pc = "done"
  /\ last.via \in {"toggleTodo", "togglePinNote"}
  /\ last.op \in {"updateTodo", "updateNote"}
  /\ last.readOk
  /\ ~last.stale
  /\ last.missed # <<>>
  /\ LET w == last.missed[Len(last.missed)]
     IN  \/ w[1] \in {"clearAllTodos", "clearAllNotes"}
         \/ w[1] \in {"deleteTodo", "deleteNote"} /\ w[2] = last.id

\* C17: a toggle whose record is removed between its lookup and its
\* update's read rejects with 'Todo not found' ('Note not found'), returns
\* nothing and writes nothing: the removed record stays removed.
C17_ToggleAfterRemoval ==
  RemovedUnderToggle =>
    /\ last.error = IF last.svc = "todo" THEN "Todo not found" ELSE "Note not found"
    /\ last.result = Null
    /\ last.wrote = Null
    /\ storage[KeyOf(last.svc)] = last.before
    /\ ~HasId(Coll(storage[KeyOf(last.svc)]), last.id)

\* toggleTodo of one of two stored todos, deleted meanwhile: the other
\* todo is what storage holds
C17_Witness ==
  /\ RemovedUnderToggle
  /\ last.via = "toggleTodo"
  /\ last.missed[1][1] = "deleteTodo"
  /\ Len(Todos) = 1

\* TodoScreen has loaded, no call is in progress, every storage access so
\* far succeeded and stored ids are unique
ScreenAtRest ==
  /\ scenario = "screen"
  /\ ~loading
  /\ Quiet
  /\ ~faulted
  /\ UniqueIds(Todos)

C19_AsStated ==
  [][(showForm /\ showForm') =>
       /\ editingTodo' = editingTodo
       /\ editingNote' = editingNote]_vars

\* NotesScreen has loaded, no call is in progress, every storage access so
\* far succeeded, no handler was invoked while a call was in progress, and
\* stored ids are unique
NotesAtRest ==
  /\ scenario = "notes-screen"
  /\ ~loading
  /\ Quiet
  /\ ~faulted
  /\ ~overlapped
  /\ UniqueIds(Notes)

\* no note that is not pinned is listed before a pinned note
PinnedFirst(list) ==
  \A i, j \in DOMAIN list :
    i < j /\ ~Not(list[j], "isPinned") => ~Not(list[i], "isPinned")

\* C20: when NotesScreen's handlers run one at a time, then whenever no call
\* is in progress the screen's notes are in the order getNotes returns
\* them in, pinned notes first.
C20_AsStated ==
  NotesAtRest =>
    /\ PinnedFirst(notes)
    /\ JSONstringify(notes) = JSONstringify(getNotes(TRUE))

\* the last settled call is a getNotesStats and every storage access so far
\* succeeded
NotesStatsGot ==
  /\ last.pc = "done"
  /\ last.via = "getNotesStats"
  /\ ~faulted

\* C21: however getNotesStats interleaves with the calls that write notes,
\* its result has pinned <= total and categories <= total, and tags = 0
\* when no stored note has a tag.
C21_AsStated ==
  NotesStatsGot =>
    LET r == last.result[1]
    IN  /\ r.pinned <= r.total
        /\ r.categories <= r.total
        /\ (\A i \in DOMAIN Notes :
              "tags" \in DOMAIN Notes[i] => Notes[i].tags = <<>>) => r.tags = 0

\* C22: a step changes the value stored under a key only when a call of
\* that key's service settles in it, so no todo operation changes '@notes'
\* and no note operation changes '@todos'; a clearAllTodos that succeeds
\* leaves no '@todos' entry, getTodos then returns the empty list and
\* getNotes what it returned before.
C22_Independent ==
  [][/\ \A k \in Keys :
          storage'[k] # storage[k] => last'.pc = "done" /\ KeyOf(last'.svc) = k
     /\ (/\ started' = started + 1
         /\ last'.pc = "done"
         /\ last'.via = "clearAllTodos"
         /\ last'.error = "")
        => /\ storage'[TODOS_KEY] = Null
           /\ (getTodos(TRUE))' = <<>>
           /\ (getNotes(TRUE))' = getNotes(TRUE)]_vars

\* a clearAllTodos removed stored todos while notes are stored
C22_Witness ==
  /\ scenario = "both"
  /\ last.pc = "done"
  /\ last.via = "clearAllTodos"
  /\ last.error = ""
  /\ Coll(last.before) # <<>>
  /\ Todos = <<>>
  /\ Len(Notes) = 2
  /\ getTodos(TRUE) = <<>>

\* the last settled call is a togglePinNote that ran alone, found its note
\* and saved, at a clock value later than every updatedAt stored before it
PinToggled ==
  /\ Settled("note", "togglePinNote")
  /\ last.alone
  /\ last.error = ""
  /\ last.result # Null
  /\ \A i \in DOMAIN Before : getTime(Before[i].updatedAt) < now

\* C23: after a togglePinNote that ran alone at a clock value later than
\* every stored updatedAt, getNotes returns the note first when the toggle
\* pinned it, and as the first of the notes that are not pinned, after
\* every pinned note, when the toggle unpinned it.
C23_TogglePlaces ==
  PinToggled =>
    LET got == getNotes(TRUE)
        was == find(sortNotes(JSONparse(Before)), last.id)[1]
        unpinned == { k \in DOMAIN got : ~got[k].val.isPinned }
    IN  /\ Returned.isPinned = ~was.val.isPinned
        /\ Returned.isPinned => got[1].val = Returned
        /\ ~Returned.isPinned =>
             \E k \in unpinned :
               /\ got[k].val = Returned
               /\ \A j \in DOMAIN got : j < k <=> got[j].val.isPinned

\* a pinned note was unpinned while another note stays pinned and a third
\* is not pinned
C23_Witness ==
  /\ PinToggled
  /\ ~Returned.isPinned
  /\ Len(Notes) = 3
  /\ \E i, j \in DOMAIN Notes :
       /\ Notes[i].isPinned
       /\ ~Notes[j].isPinned
       /\ Notes[j].id # Returned.id

\* the last settled call is a createTodo or a createNote that returned a
\* record
CreateReturned ==
  /\ last.pc = "done"
  /\ last.via \in {"createTodo", "createNote"}
  /\ last.error = ""

\* C24: the record a create returns has createdAt equal to updatedAt and an
\* id that is the instant of createdAt, however the clock moves between the
\* three clock reads of the create.
C24_AsStated ==
  CreateReturned =>
    /\ Returned.createdAt = Returned.updatedAt
    /\ Returned.id = DateNowToString(getTime(Returned.createdAt))

\* C25: a mounted TodoScreen or NotesScreen stops loading once its read
\* has returned, with data or with an error; a screen that is refreshing
\* stops refreshing in the end; loading, once false, stays false.
C25_LoadingEnds ==
  /\ scenario \in {"screen", "notes-screen"} => <>(~loading)
  /\ [](refreshing => <>(~refreshing))
  /\ [][~loading => ~loading']_vars

\* a pull-to-refresh whose read failed has ended
C25_Witness ==
  /\ scenario \in {"screen", "notes-screen"}
  /\ last.pc = "done"
  /\ last.handler \in Loaders
  /\ ~last.readOk
  /\ started >= 1
  /\ Quiet
  /\ ~loading
  /\ ~refreshing

\* sub is list with some elements left out, the others in list's order
RECURSIVE IsSubList(_, _)
IsSubList(sub, list) ==
  IF sub = <<>> THEN TRUE
  ELSE IF list = <<>> THEN FALSE
  ELSE IF Head(sub) = Head(list) /\ IsSubList(Tail(sub), Tail(list)) THEN TRUE
  ELSE IsSubList(sub, Tail(list))

Elements(list) == { list[i] : i \in DOMAIN list }

\* C26: whatever the filter and the search text, TodoScreen displays an
\* order-preserving sub-list of its todos; all of them with filter 'all'
\* and a search text that is empty or blank; with an empty search text the
\* 'active' and the 'completed' list share no todo, hold every todo
\* between them, and 'active' holds exactly the todos with completed false.
C26_Displayed ==
  scenario = "screen" =>
    /\ \A f \in TodoFilters, q \in SearchTexts : IsSubList(filteredTodos(f, q), todos)
    /\ \A q \in {"", " "} : filteredTodos("all", q) = todos
    /\ LET active == filteredTodos("active", "")
           completed == filteredTodos("completed", "")
       IN  /\ Elements(active) \cap Elements(completed) = {}
           /\ Elements(active) \cup Elements(completed) = Elements(todos)
           /\ Len(active) + Len(completed) = Len(todos)
           /\ active = SelectSeq(todos, LAMBDA t :
                          Has(t, "completed") /\ t.val.completed = FALSE)

\* three todos, one of them completed: 'active' and 'completed' both leave
\* todos out, and a search text in upper case finds a title in lower case
C26_Witness ==
  /\ scenario = "screen"
  /\ Len(todos) = 3
  /\ Len(filteredTodos("active", "")) = 2
  /\ Len(filteredTodos("completed", "")) = 1
  /\ Len(filteredTodos("all", "A")) = 1
  /\ filteredTodos("all", " ") = todos

CreateTodoAlone == Settled("todo", "createTodo") /\ last.alone

\* C2 as stated: createTodo run alone appends the new todo to the previous
\* collection, returns the appended record, and getTodoById of the returned
\* id gives that record.
C2_AsStated ==
  CreateTodoAlone =>
    /\ last.result # Null
    /\ Todos = Append(Before, Returned)
    /\ Lookup(Todos, Returned.id) = <<Returned>>

\* C2, amended: createTodo run alone appends the new todo to the previous
\* collection and returns the appended record; getTodoById of the returned
\* id gives that record when no earlier todo has the same id, and the first
\* earlier todo with that id otherwise.
C2_CreateAppends ==
  CreateTodoAlone =>
    /\ last.result # Null
    /\ storage[TODOS_KEY] # Null
    /\ Todos = Append(Before, Returned)
    /\ Lookup(Todos, Returned.id) =
         IF HasId(Before, Returned.id)
           THEN Lookup(Before, Returned.id)
           ELSE <<Returned>>

C2_Witness ==
  /\ CreateTodoAlone
  /\ Len(Before) = 2
  /\ ~HasId(Before, Returned.id)
  /\ Todos[3] = Returned
  /\ "description" \notin DOMAIN Returned

====
